---- MODULE Spec2Model ----
(***************************************************************************)
(* Model of the x402 payment demo: the demo page (app/x402-demo/page.tsx), *)
(* its handleBuyAccess flow, and the gated route GET /api/video.           *)
(*                                                                         *)
(* withX402, x402ResourceServer, HTTPFacilitatorClient, x402Client and     *)
(* wrapFetchWithPayment are imported from the @x402 packages.  Their code  *)
(* is not part of the repository, so what they decide (whether a request   *)
(* counts as paid, whether the wrapped fetch resolves or rejects, whether  *)
(* the signer is asked) is an input of the actions below, drawn from small *)
(* sets.  The wallet hooks of wagmi are inputs in the same way.            *)
(***************************************************************************)
EXTENDS Integers, Sequences, FiniteSets, TLC

\* Number of clicks on the Buy button a behaviour may contain.
MaxClicks == 2
\* Number of times the payment library may call the signer in one flow.
MaxSignsPerFlow == 1

\* baseSepolia.id (wagmi/chains), also USDC_ASSET_INFO.chainId.
BaseSepoliaId == 84532
\* Another chain the wallet may be on.
OtherChainId == 1
Chains == {BaseSepoliaId, OtherChainId}

NULL == [none |-> TRUE]

VARIABLES
    mounted,          \* useState(false), set by the first effect
    isConnected,      \* useAccount().isConnected
    address,          \* TRUE when useAccount().address is defined
    currentChainId,   \* useAccount().chainId
    walletClient,     \* TRUE when useWalletClient().data is defined
    switchPending,    \* switchChain() was requested and has not finished
    loading,          \* useState(false)
    videoData,        \* useState(null)
    logs,             \* useState([]) : sequence of <<message, argument>>
    flows,            \* one entry per handleBuyAccess call that passed the guards
    clicks,           \* calls of handleBuyAccess so far
    requests,         \* calls of fetchWithPay so far
    signatures,       \* calls of signer.signTypedData so far
    handlerCalls      \* invocations of the route's handler so far

vars == <<mounted, isConnected, address, currentChainId, walletClient,
          switchPending, loading, videoData, logs, flows, clicks, requests,
          signatures, handlerCalls>>

wallet == <<isConnected, address, currentChainId, walletClient>>

FlowIds == 1..MaxClicks

\* APP_CONFIG.video
APP_CONFIG ==
    [title |-> "Rick Astley - Never Gonna Give You Up",
     videoId |-> "dQw4w9WgXcQ",
     url |-> "https://www.youtube.com/watch?v=dQw4w9WgXcQ",
     successMessage |-> "Thank you for your payment! Enjoy the video."]

\* The content handler of the route: NextResponse.json({...}), status 200.
handler ==
    [status |-> 200,
     body |-> [title |-> APP_CONFIG.title,
               videoId |-> APP_CONFIG.videoId,
               url |-> APP_CONFIG.url,
               message |-> APP_CONFIG.successMessage]]

\* A response that does not come from the handler (payment required, or a
\* failure of the server); its body is not the video.
ErrorResponse(status) ==
    [status |-> status, body |-> [error |-> "request not served"]]

NotOkStatuses == {402, 500}

\* GET = withX402(handler, ...): the handler is what produces the resource;
\* whether the request counts as paid is decided inside withX402.
GET(paid) == IF paid THEN handler ELSE ErrorResponse(402)

\* Response.ok as used in `if (res.ok)`.
ResOk(res) == res.status >= 200 /\ res.status <= 299

\* addLog: append one entry (the time-of-day prefix is not modelled).
addLog(l, msg, arg) == Append(l, <<msg, arg>>)

Present(b) == IF b THEN "Present" ELSE "Missing"

NoFlow == [pc |-> "none", res |-> NULL, signs |-> 0]

\* disabled={!isConnected || loading}
ButtonDisabledIgnoresLoading == ~isConnected
ButtonDisabled == ~isConnected \/ loading

Active(i) == flows[i].pc \in {"fetching", "json", "text"}
InFlight == {i \in FlowIds : Active(i)}

Init ==
    /\ mounted = FALSE
    /\ isConnected = FALSE
    /\ address = FALSE
    /\ currentChainId = 0   \* undefined while no wallet is connected
    /\ walletClient = FALSE
    /\ switchPending = FALSE
    /\ loading = FALSE
    /\ videoData = NULL
    /\ logs = <<>>
    /\ flows = [i \in FlowIds |-> NoFlow]
    /\ clicks = 0
    /\ requests = 0
    /\ signatures = 0
    /\ handlerCalls = 0

----
\* The wallet and the React runtime.

\* useEffect(() => setMounted(true), [])
Mount ==
    /\ ~mounted
    /\ mounted' = TRUE
    /\ UNCHANGED <<wallet, switchPending, loading, videoData, logs, flows,
                   clicks, requests, signatures, handlerCalls>>

\* handleConnect: connect({connector}); the wallet may be on any chain.
handleConnect ==
    /\ mounted /\ ~isConnected
    /\ \E c \in Chains :
        /\ isConnected' = TRUE
        /\ address' = TRUE
        /\ currentChainId' = c
    /\ walletClient' = FALSE
    /\ UNCHANGED <<mounted, switchPending, loading, videoData, logs, flows,
                   clicks, requests, signatures, handlerCalls>>

\* disconnect()
Disconnect ==
    /\ mounted /\ isConnected
    /\ isConnected' = FALSE
    /\ address' = FALSE
    /\ currentChainId' = 0
    /\ walletClient' = FALSE
    /\ switchPending' = FALSE
    /\ UNCHANGED <<mounted, loading, videoData, logs, flows, clicks, requests,
                   signatures, handlerCalls>>

\* refetchWalletClient() resolves: a client exists only on a configured chain.
refetchWalletClient ==
    /\ isConnected /\ address /\ ~walletClient
    /\ currentChainId = BaseSepoliaId
    /\ walletClient' = TRUE
    /\ UNCHANGED <<mounted, isConnected, address, currentChainId,
                   switchPending, loading, videoData, logs, flows, clicks,
                   requests, signatures, handlerCalls>>

\* The switchChain request finishes: the wallet switched, or the user refused.
SwitchChainDone ==
    /\ switchPending /\ isConnected
    /\ switchPending' = FALSE
    /\ \/ /\ currentChainId' = BaseSepoliaId
          /\ walletClient' = FALSE
       \/ UNCHANGED <<currentChainId, walletClient>>
    /\ UNCHANGED <<mounted, isConnected, address, loading, videoData, logs,
                   flows, clicks, requests, signatures, handlerCalls>>

----
\* handleBuyAccess, from the click to its first await.

CanClick == mounted /\ ~ButtonDisabled /\ clicks < MaxClicks

\* if (currentChainId !== baseSepolia.id) { addLog; switchChain; return }
BuyWrongNetwork ==
    /\ CanClick
    /\ currentChainId # BaseSepoliaId
    /\ clicks' = clicks + 1
    /\ \E throws \in BOOLEAN :
        IF throws
        THEN /\ logs' = addLog(addLog(logs, "Wrong network",
                                      ToString(currentChainId)),
                               "Failed to switch network", "")
             /\ UNCHANGED switchPending
        ELSE /\ logs' = addLog(logs, "Wrong network", ToString(currentChainId))
             /\ switchPending' = TRUE
    /\ UNCHANGED <<mounted, wallet, loading, videoData, flows, requests,
                   signatures, handlerCalls>>

\* if (!walletClient || !address) { addLog; refetchWalletClient(); return }
BuyWalletCheckFailed ==
    /\ CanClick
    /\ currentChainId = BaseSepoliaId
    /\ ~walletClient \/ ~address
    /\ clicks' = clicks + 1
    /\ logs' = addLog(logs, "Wallet check failed",
                      Present(address) \o "/" \o Present(walletClient))
    /\ UNCHANGED <<mounted, wallet, switchPending, loading, videoData, flows,
                   requests, signatures, handlerCalls>>

\* setLoading(true); addLog; new x402Client(); registerExactEvmScheme;
\* wrapFetchWithPayment; addLog; await fetchWithPay('/api/video', ...)
BuyStart ==
    /\ CanClick
    /\ currentChainId = BaseSepoliaId
    /\ walletClient /\ address
    /\ clicks' = clicks + 1
    /\ loading' = TRUE
    /\ logs' = addLog(addLog(logs, "Initiating request...", ""),
                      "Sending request to API...", "")
    /\ requests' = requests + 1
    /\ flows' = [flows EXCEPT ![clicks + 1] =
                    [pc |-> "fetching", res |-> NULL, signs |-> 0]]
    /\ UNCHANGED <<mounted, wallet, switchPending, videoData, signatures,
                   handlerCalls>>

----
\* handleBuyAccess, after the click.

\* signer.signTypedData(args) => walletClient.signTypedData(args), called by
\* the payment library while fetchWithPay is pending.
signTypedData(i) ==
    /\ flows[i].pc = "fetching"
    /\ flows[i].signs < MaxSignsPerFlow
    /\ signatures' = signatures + 1
    /\ flows' = [flows EXCEPT ![i].signs = @ + 1]
    /\ UNCHANGED <<mounted, wallet, switchPending, loading, videoData, logs,
                   clicks, requests, handlerCalls>>

\* The part of handleBuyAccess that runs when fetchWithPay resolves with res,
\* up to the next await (res.json() or res.text()).
OnResponseNoOkCheck(i, res) ==
    /\ flows' = [flows EXCEPT ![i].pc = "json", ![i].res = res]
    /\ UNCHANGED logs
OnResponse(i, res) ==
    IF ResOk(res)
    THEN /\ flows' = [flows EXCEPT ![i].pc = "json", ![i].res = res]
         /\ UNCHANGED logs
    ELSE /\ logs' = addLog(logs, "Request failed", ToString(res.status))
         /\ flows' = [flows EXCEPT ![i].pc = "text", ![i].res = res]

\* fetchWithPay resolves with the route's answer to a paid request.
FetchResolvesPaid(i) ==
    /\ flows[i].pc = "fetching"
    /\ handlerCalls' = handlerCalls + 1
    /\ OnResponse(i, GET(TRUE))
    /\ UNCHANGED <<mounted, wallet, switchPending, loading, videoData, clicks,
                   requests, signatures>>

\* fetchWithPay resolves with a response that is not the resource.
FetchResolvesUnpaid(i) ==
    /\ flows[i].pc = "fetching"
    /\ \E res \in {GET(FALSE)} \cup {ErrorResponse(s) : s \in NotOkStatuses} :
        OnResponse(i, res)
    /\ UNCHANGED <<mounted, wallet, switchPending, loading, videoData, clicks,
                   requests, signatures, handlerCalls>>

ThrowReasons == {"signer declined", "network error", "no supported scheme"}

\* catch (error) { addLog(`Error: ...`) } finally { setLoading(false) }
CatchFinallyKeepsLoading(i, reason) ==
    /\ logs' = addLog(logs, "Error", reason)
    /\ flows' = [flows EXCEPT ![i].pc = "done"]
    /\ UNCHANGED loading
CatchFinally(i, reason) ==
    /\ logs' = addLog(logs, "Error", reason)
    /\ flows' = [flows EXCEPT ![i].pc = "done"]
    /\ loading' = FALSE

\* fetchWithPay rejects.
FetchThrows(i) ==
    /\ flows[i].pc = "fetching"
    /\ \E reason \in ThrowReasons : CatchFinally(i, reason)
    /\ UNCHANGED <<mounted, wallet, switchPending, videoData, clicks, requests,
                   signatures, handlerCalls>>

\* const data = await res.json(); setVideoData(data); addLog; finally
JsonResolves(i) ==
    /\ flows[i].pc = "json"
    /\ videoData' = flows[i].res.body
    /\ logs' = addLog(logs, "Payment successful! Content unlocked.", "")
    /\ flows' = [flows EXCEPT ![i].pc = "done"]
    /\ loading' = FALSE
    /\ UNCHANGED <<mounted, wallet, switchPending, clicks, requests,
                   signatures, handlerCalls>>

\* await res.json() rejects.
JsonThrows(i) ==
    /\ flows[i].pc = "json"
    /\ CatchFinally(i, "body unreadable")
    /\ UNCHANGED <<mounted, wallet, switchPending, videoData, clicks, requests,
                   signatures, handlerCalls>>

\* const errText = await res.text(); addLog(`Error details: ...`); finally
TextResolves(i) ==
    /\ flows[i].pc = "text"
    /\ logs' = addLog(logs, "Error details", ToString(flows[i].res.status))
    /\ flows' = [flows EXCEPT ![i].pc = "done"]
    /\ loading' = FALSE
    /\ UNCHANGED <<mounted, wallet, switchPending, videoData, clicks, requests,
                   signatures, handlerCalls>>

\* await res.text() rejects.
TextThrows(i) ==
    /\ flows[i].pc = "text"
    /\ CatchFinally(i, "body unreadable")
    /\ UNCHANGED <<mounted, wallet, switchPending, videoData, clicks, requests,
                   signatures, handlerCalls>>

Next ==
    \/ Mount
    \/ handleConnect
    \/ Disconnect
    \/ refetchWalletClient
    \/ SwitchChainDone
    \/ BuyWrongNetwork
    \/ BuyWalletCheckFailed
    \/ BuyStart
    \/ \E i \in FlowIds : signTypedData(i)
    \/ \E i \in FlowIds : FetchResolvesPaid(i)
    \/ \E i \in FlowIds : FetchResolvesUnpaid(i)
    \/ \E i \in FlowIds : FetchThrows(i)
    \/ \E i \in FlowIds : JsonResolves(i)
    \/ \E i \in FlowIds : JsonThrows(i)
    \/ \E i \in FlowIds : TextResolves(i)
    \/ \E i \in FlowIds : TextThrows(i)

Spec == Init /\ [][Next]_vars

----
\* Properties of the demo page.

FailureMsgs == {"Request failed", "Error details", "Error"}

\* A flow that holds a non-ok response, or whose fetch is rejected, takes a step.
FailureStep ==
    \E i \in FlowIds :
        \/ flows[i].pc = "fetching" /\ flows'[i].pc \in {"text", "done"}
        \/ flows[i].pc = "text" /\ flows'[i].pc = "done"

OnlyFailureEntriesAppended ==
    /\ Len(logs') > Len(logs)
    /\ SubSeq(logs', 1, Len(logs)) = logs
    /\ \A k \in (Len(logs) + 1)..Len(logs') : logs'[k][1] \in FailureMsgs

UnlockedOnlyByOkResponse ==
    videoData # NULL =>
        /\ videoData = handler.body
        /\ handlerCalls > 0
        /\ \E i \in FlowIds :
            /\ flows[i].pc = "done"
            /\ flows[i].res # NULL
            /\ ResOk(flows[i].res)

GuardStep ==
    /\ clicks' = clicks + 1
    /\ currentChainId # BaseSepoliaId \/ ~walletClient \/ ~address

\* A click that passes the guards.
StartStep ==
    /\ clicks' = clicks + 1
    /\ currentChainId = BaseSepoliaId /\ walletClient /\ address

\* A flow ends.
EndStep == \E i \in FlowIds : Active(i) /\ flows'[i].pc = "done"

\* C10: at most one payment flow is in flight; loading is true exactly
\* while a flow is in flight, the Buy button is disabled while loading, and
\* loading is false after a flow ends on every path; the guard paths leave
\* loading alone and issue no request and no signature.
C10_SingleFlowLoading ==
    /\ [](/\ Cardinality(InFlight) <= 1
          /\ loading <=> (InFlight # {})
          /\ loading => ButtonDisabled)
    /\ [][/\ GuardStep => UNCHANGED <<loading, requests, signatures, flows>>
          /\ StartStep => loading' /\ requests' = requests + 1
          /\ EndStep => ~loading']_vars

\* One click took a guard path, another started a flow that ended in the
\* catch block, and loading is false again.
C10_Witness ==
    /\ clicks > requests
    /\ ~loading
    /\ \E i \in FlowIds : flows[i].pc = "done"
    /\ \E k \in 1..Len(logs) : logs[k][1] = "Error"

====
